---- MODULE Spec2Model ----
(***************************************************************************)
(* A model of samformer_pytorch/samformer/samformer.py: the SAMFormer      *)
(* trainer (constructor, fit, forecast, predict, extract_matrices,         *)
(* extract_weight_matrices) and the forward pass of SAMFormerArchitecture. *)
(*                                                                         *)
(* Tensors are abstracted to what the control flow and the data flow need: *)
(* a sample is its index in its data set, a batch is a sequence of sample  *)
(* indices, the parameters are a version number (the number of base        *)
(* updates applied) and a flag telling whether they sit at the perturbed   *)
(* position, a gradient is the sequence of losses back-propagated into it  *)
(* since it was last zeroed.                                               *)
(*                                                                         *)
(* utils/sam.py (SAM) and utils/revin.py (RevIN) are not part of the       *)
(* sources at hand: first_step, second_step, RevINNorm and RevINDenorm are *)
(* written from the specification (sections 4.1 and 4.5).                  *)
(***************************************************************************)
EXTENDS Integers, Sequences, FiniteSets, TLC

\* ------------------------------------------------------------ bounds
MaxEpochs == 2
MaxSamples == 2
MaxBatchSize == 2
MaxChannels == 2
MaxWidth == 3
MaxCalls == 2
MaxClientCalls == 5

\* ----------------------------------------------------------- helpers
Min(a, b) == IF a < b THEN a ELSE b

CeilDiv(a, b) == (a + b - 1) \div b

Perms(n) == {s \in [1..n -> 1..n] : \A i, j \in 1..n : s[i] = s[j] => i = j}

RECURSIVE Flatten(_)
Flatten(ss) == IF ss = <<>> THEN <<>> ELSE Head(ss) \o Flatten(Tail(ss))

Last2(s) == IF Len(s) <= 2 THEN s ELSE SubSeq(s, Len(s) - 1, Len(s))

VARIABLES
  cfg,        \* the constructor's arguments kept on self (lines 62-70)
  network,    \* self.network: 0 is None, k > 0 the k-th network object built
  net,        \* the state of the object self.network refers to
  optimizer,  \* fit's local SAM optimizer
  pc,         \* the position of the call in progress
  fit,        \* fit's arguments and local variables
  trace,      \* the operations run so far on the current batch, in order
  hist,       \* counters of the fit call in progress or last ended
  revinLog,   \* the last two calls made to the normalizer of self.network
  result,     \* the call in progress or last ended and how it ended
  fitted,     \* whether fit has returned for the network self.network refers to
  calls       \* the number of calls made on the instance

vars == <<cfg, network, net, optimizer, pc, fit, trace, hist, revinLog, result,
          fitted, calls>>

\* ---------------------------------------------------- data structures
\* The statistics RevIN holds: of which call's data (0: none yet) and of which
\* samples, one entry per row of the batch they were computed from.
NoStats == [data |-> 0, rows |-> <<>>]

InitParams == [version |-> 0, perturbed |-> FALSE]

\* The attributes of a SAMFormerArchitecture after __init__ (lines 19-26);
\* nn.Module starts in training mode, with no gradient and, in RevIN, no
\* statistics yet.  The shapes of its layers are read by fit alone, which
\* keeps them among its locals (fit.D, fit.pred_horizon).
NewNetwork(use_revin) ==
  [use_revin |-> use_revin, training |-> TRUE,
   params |-> InitParams, grad |-> <<>>, stats |-> NoStats]

NoNetwork == NewNetwork(FALSE)

NoCache == [cached |-> FALSE, grad |-> <<>>]

NoOptimizer == [cls |-> "none", base_optimizer |-> "none", phase |-> "ascent",
                e_w |-> NoCache, consumed |-> <<>>]

NoTensor == [x |-> NoStats, params |-> InitParams, denorm |-> NoStats, fwd |-> 0]

NoFit == [N |-> 0, D |-> 0, W |-> 0, pred_horizon |-> 0, prev_network |-> 0,
          epoch |-> 0, order |-> <<>>, pos |-> 0, loss_list |-> 0,
          x_batch |-> <<>>, out_batch |-> NoTensor, loss |-> NoTensor]

NoHist == [epochs |-> 0, cycles |-> 0, ascents |-> 0, descents |-> 0,
           done |-> <<>>]

NoResult == [op |-> "none", status |-> "none", N |-> 0, b |-> 0, rows |-> <<>>]

\* ------------------------------------------------------------ RevIN
\* self.revin(x, mode='norm'): computes the statistics of x and stores them
\* on the normalizer (specification, section 4.1).
RevINNorm(n, x) == [n EXCEPT !.stats = x]

\* self.revin(out, mode='denorm'): the statistics it multiplies and adds
\* back are the ones stored by the most recent norm call.
RevINDenorm(n) == n.stats

RevINEvent(mode, by, x, used) == [mode |-> mode, by |-> by, x |-> x, used |-> used]

\* ------------------------------------------------ SAMFormerArchitecture
\* A forward pass that denormalizes without having normalized.
MutForwardSkipsNorm(n) == FALSE

\* Line 30: forward normalizes iff use_revin.
ForwardNormalizes(n) == n.use_revin

\* Line 46: forward denormalizes iff use_revin.
ForwardDenormalizes(n) == n.use_revin

\* forward(x) (lines 28-51) on the batch x = [data, rows]: the network after
\* the call (its normalizer holds new statistics), the output tensor (of
\* which batch, at which parameters, denormalized with which statistics) and
\* the calls made to the normalizer.
Forward(n, x, fwd) ==
  LET n1 == IF ForwardNormalizes(n) THEN RevINNorm(n, x) ELSE n
      used == IF ForwardDenormalizes(n) THEN RevINDenorm(n1) ELSE NoStats
  IN [net |-> n1,
      out |-> [x |-> x, params |-> n1.params, denorm |-> used, fwd |-> fwd],
      events |-> (IF ForwardNormalizes(n)
                    THEN <<RevINEvent("norm", "forward", x, NoStats)>> ELSE <<>>)
                 \o (IF ForwardDenormalizes(n)
                       THEN <<RevINEvent("denorm", "forward", x, used)>> ELSE <<>>)]

\* Row k of the statistics a denormalization used (none: no such row).
StatRow(stats, k) ==
  IF k <= Len(stats.rows) THEN [data |-> stats.data, sample |-> stats.rows[k]]
                          ELSE [data |-> 0, sample |-> 0]

\* The rows of an output tensor, one per sample of its batch (line 49).
OutRows(out) ==
  [k \in 1..Len(out.x.rows) |->
     [data |-> out.x.data, sample |-> out.x.rows[k], params |-> out.params,
      stat |-> StatRow(out.denorm, k)]]

\* ------------------------------------------------------- DataLoader
\* DataLoader(dataset, batch_size=b) over the samples in the order `order`:
\* consecutive batches of b samples, the last one shorter (drop_last is off).
Batches(order, b) ==
  [k \in 1..CeilDiv(Len(order), b) |->
     SubSeq(order, (k - 1) * b + 1, Min(k * b, Len(order)))]

\* shuffle=False (line 124): the samples in their original order.
Sequential(n) == [i \in 1..n |-> i]

\* -------------------------------------------------------------- SAM
\* A fit that builds the base optimizer itself instead of wrapping it.
MutBareBaseOptimizer == "Adam"

\* SAM(params, base_optimizer=..., rho=..., lr=..., weight_decay=...), lines 85-86.
OptimizerClass == "SAM"

NewOptimizer(base_optimizer) ==
  [cls |-> OptimizerClass, base_optimizer |-> base_optimizer, phase |-> "ascent",
   e_w |-> NoCache, consumed |-> <<>>]

StepResult(err, opt, n) == [err |-> err, opt |-> opt, net |-> n]

\* loss.backward(): accumulates the gradient of `loss` into the parameters'
\* gradients.
Backward(n, loss) == [n EXCEPT !.grad = Append(@, loss)]

\* optimizer.zero_grad()
ZeroGrad(n) == [n EXCEPT !.grad = <<>>]

\* SAM.first_step (specification 4.5 and 7b): a second ascent without a descent
\* in between is a protocol error; otherwise every parameter moves to the
\* perturbed position, the displacement is cached, and the gradients are
\* zeroed when asked.
first_step(opt, n, zero_grad) ==
  IF opt.phase # "ascent"
    THEN StepResult("ProtocolError", opt, n)
    ELSE StepResult("none",
           [opt EXCEPT !.phase = "descent",
                       !.e_w = [cached |-> TRUE, grad |-> n.grad]],
           LET n1 == [n EXCEPT !.params.perturbed = TRUE]
           IN IF zero_grad THEN ZeroGrad(n1) ELSE n1)

\* A second_step with no check of the phase.
MutSecondStepUnguarded(opt, n, zero_grad) ==
  StepResult("none",
    [opt EXCEPT !.phase = "ascent", !.e_w = NoCache, !.consumed = n.grad],
    LET n1 == [n EXCEPT !.params = [version |-> @.version + 1, perturbed |-> FALSE]]
    IN IF zero_grad THEN ZeroGrad(n1) ELSE n1)

\* SAM.second_step (specification 4.5 and 7b): a descent without a preceding
\* ascent is a protocol error; otherwise the perturbation is undone and
\* cleared, the base optimizer applies its update with the current gradient,
\* and the gradients are zeroed when asked.
second_step(opt, n, zero_grad) ==
  IF opt.phase # "descent"
    THEN StepResult("ProtocolError", opt, n)
    ELSE StepResult("none",
           [opt EXCEPT !.phase = "ascent", !.e_w = NoCache, !.consumed = n.grad],
           LET n1 == [n EXCEPT !.params = [version |-> @.version + 1,
                                           perturbed |-> FALSE]]
           IN IF zero_grad THEN ZeroGrad(n1) ELSE n1)

\* ------------------------------------------------------------- fit
\* Line 80: pred_horizon = y.shape[1] // x.shape[1].
PredHorizon(D, W) == W \div D

\* self.criterion(out_batch, y_batch), nn.MSELoss on (n, D*H) and (n, W): the
\* widths must be equal or broadcast (one of them 1).
LossShapesOK(D, H, W) == D * H = W \/ W = 1 \/ D * H = 1

\* A first_step that leaves the gradients of the first backward pass in place.
MutFirstStepKeepsGrad == FALSE

\* Line 103: optimizer.first_step(zero_grad=True).
FirstStepZeroGrad == TRUE

\* Line 109: optimizer.second_step(zero_grad=True).
SecondStepZeroGrad == TRUE

\* A loop body that never takes the descent step.
MutBodyWithoutDescent(cls) ==
  <<"forward", "loss", "backward", "first_step", "forward", "loss", "backward">>

\* Lines 97-113: the operations of the loop body on one batch, in program
\* order, for an optimizer of class `cls` (the test of line 101).
BatchBody(cls) ==
  IF cls = "SAM"
    THEN <<"forward", "loss", "backward", "first_step",
           "forward", "loss", "backward", "second_step">>
    ELSE <<"forward", "loss", "zero_grad", "backward", "step">>

\* The next operation of the loop body on the current batch.
NextOp ==
  LET body == BatchBody(optimizer.cls)
  IN IF Len(trace) < Len(body) THEN body[Len(trace) + 1] ELSE "append_loss"

\* The number of forward passes made so far on the current batch.
ForwardsDone == Cardinality({i \in 1..Len(trace) : trace[i] = "forward"})


\* ------------------------------------------------------ construction
BaseOptimizers == {"Adam", "SGD"}

\* SAMFormer.__init__ (lines 58-70): network is None, the arguments are kept.
Init ==
  /\ cfg \in [num_epochs : 0..MaxEpochs, batch_size : 1..MaxBatchSize,
              base_optimizer : BaseOptimizers, use_revin : BOOLEAN]
  /\ network = 0
  /\ net = NoNetwork
  /\ optimizer = NoOptimizer
  /\ pc = "idle"
  /\ fit = NoFit
  /\ trace = <<>>
  /\ hist = NoHist
  /\ revinLog = <<>>
  /\ result = NoResult
  /\ fitted = FALSE
  /\ calls = 0

CanCall == pc = "idle" /\ calls < MaxCalls

Raised(op, status, N, b) == [op |-> op, status |-> status, N |-> N, b |-> b, rows |-> <<>>]

\* ---------------------------------------------------------- fit, entry
\* fit(x, y) with x of shape (N, D, L), D >= 1, and y of shape (N, W), lines
\* 72-89: the network, the optimizer, the data set and its loader are built
\* in that order, with no check of W against D.  A loader that shuffles an empty data
\* set is refused by some versions of torch (RandomSampler) and accepted by
\* others.
FitEnter(N, D, W) ==
  /\ CanCall
  /\ calls' = calls + 1
  /\ fitted' = FALSE
  /\ trace' = <<>>
  /\ hist' = NoHist
  /\ revinLog' = <<>>
  /\ UNCHANGED cfg
  /\ network' = network + 1
  /\ net' = NewNetwork(cfg.use_revin)
  /\ optimizer' = NewOptimizer(cfg.base_optimizer)
  /\ fit' = [NoFit EXCEPT !.N = N, !.D = D, !.W = W, !.prev_network = network,
                          !.pred_horizon = PredHorizon(D, W)]
  /\ \/ /\ N = 0
        /\ result' = Raised("fit", "ValueError", N, 0)
        /\ pc' = "idle"
     \/ /\ result' = Raised("fit", "running", N, 0)
        /\ pc' = "epoch_head"

\* An epoch loop that stops one epoch short.
MutStopsOneEpochShort == fit.epoch + 1 < cfg.num_epochs

\* Lines 91-92: for epoch in range(self.num_epochs).
MoreEpochs == fit.epoch < cfg.num_epochs

\* Line 94: for (x_batch, y_batch) in data_loader_train.
MoreBatches == fit.pos < Len(Batches(fit.order, cfg.batch_size))

\* Lines 92-94: the next epoch begins; the loader draws a fresh order.
FitEpochBegin ==
  /\ pc = "epoch_head"
  /\ MoreEpochs
  /\ \E order \in Perms(fit.N) :
       fit' = [fit EXCEPT !.order = order, !.pos = 0, !.loss_list = 0]
  /\ hist' = [hist EXCEPT !.done = <<>>]
  /\ pc' = "batch_head"
  /\ UNCHANGED <<cfg, network, net, optimizer, trace, revinLog, result, fitted, calls>>

\* Line 119: the epochs are exhausted, fit returns.
FitReturn ==
  /\ pc = "epoch_head"
  /\ ~MoreEpochs
  /\ pc' = "idle"
  /\ result' = [result EXCEPT !.status = "ok"]
  /\ fitted' = TRUE
  /\ UNCHANGED <<cfg, network, net, optimizer, fit, trace, hist, revinLog, calls>>

\* Lines 94-96: the loader yields the next batch.
FitNextBatch ==
  /\ pc = "batch_head"
  /\ MoreBatches
  /\ fit' = [fit EXCEPT !.x_batch = Batches(fit.order, cfg.batch_size)[fit.pos + 1]]
  /\ trace' = <<>>
  /\ pc' = "batch_body"
  /\ UNCHANGED <<cfg, network, net, optimizer, hist, revinLog, result, fitted, calls>>

\* Lines 116-118: the loader is exhausted; mean loss, train mode, report.
FitEpochEnd ==
  /\ pc = "batch_head"
  /\ ~MoreBatches
  /\ net' = [net EXCEPT !.training = TRUE]
  /\ fit' = [fit EXCEPT !.epoch = @ + 1]
  /\ hist' = [hist EXCEPT !.epochs = @ + 1]
  /\ pc' = "epoch_head"
  /\ UNCHANGED <<cfg, network, optimizer, trace, revinLog, result, fitted, calls>>

\* ------------------------------------------------ fit, the loop body
\* Lines 98 and 105: out_batch = self.network(x_batch).
FitForward ==
  /\ pc = "batch_body"
  /\ NextOp = "forward"
  /\ LET f == Forward(net, [data |-> calls, rows |-> fit.x_batch], ForwardsDone + 1)
     IN /\ net' = f.net
        /\ fit' = [fit EXCEPT !.out_batch = f.out]
        /\ revinLog' = Last2(revinLog \o f.events)
  /\ trace' = Append(trace, "forward")
  /\ UNCHANGED <<cfg, network, optimizer, pc, hist, result, fitted, calls>>

\* Lines 99 and 106: loss = self.criterion(out_batch, y_batch).
FitLoss ==
  /\ pc = "batch_body"
  /\ NextOp = "loss"
  /\ IF LossShapesOK(fit.D, fit.pred_horizon, fit.W)
       THEN /\ fit' = [fit EXCEPT !.loss = fit.out_batch]
            /\ trace' = Append(trace, "loss")
            /\ UNCHANGED <<pc, result>>
       ELSE /\ result' = [result EXCEPT !.status = "RuntimeError"]
            /\ pc' = "idle"
            /\ UNCHANGED <<fit, trace>>
  /\ UNCHANGED <<cfg, network, net, optimizer, hist, revinLog, fitted, calls>>

\* Lines 102, 108 and 112: loss.backward().
FitBackward ==
  /\ pc = "batch_body"
  /\ NextOp = "backward"
  /\ net' = Backward(net, fit.loss)
  /\ trace' = Append(trace, "backward")
  /\ UNCHANGED <<cfg, network, optimizer, pc, fit, hist, revinLog, result, fitted, calls>>

\* A step of the optimizer ends the call when it raises.
OptimizerStep(op, r) ==
  /\ optimizer' = r.opt
  /\ net' = r.net
  /\ IF r.err = "none"
       THEN /\ trace' = Append(trace, op)
            /\ UNCHANGED <<pc, result>>
       ELSE /\ result' = [result EXCEPT !.status = r.err]
            /\ pc' = "idle"
            /\ UNCHANGED trace

\* Line 103: optimizer.first_step(zero_grad=True).
FitFirstStep ==
  /\ pc = "batch_body"
  /\ NextOp = "first_step"
  /\ OptimizerStep("first_step", first_step(optimizer, net, FirstStepZeroGrad))
  /\ hist' = [hist EXCEPT !.ascents = @ + 1]
  /\ UNCHANGED <<cfg, network, fit, revinLog, fitted, calls>>

\* Line 109: optimizer.second_step(zero_grad=True).
FitSecondStep ==
  /\ pc = "batch_body"
  /\ NextOp = "second_step"
  /\ OptimizerStep("second_step", second_step(optimizer, net, SecondStepZeroGrad))
  /\ hist' = [hist EXCEPT !.descents = @ + 1, !.cycles = @ + 1]
  /\ UNCHANGED <<cfg, network, fit, revinLog, fitted, calls>>

\* Line 114: loss_list.append(loss.item()); the batch is done.
FitAppendLoss ==
  /\ pc = "batch_body"
  /\ NextOp = "append_loss"
  /\ fit' = [fit EXCEPT !.loss_list = @ + 1, !.pos = @ + 1]
  /\ hist' = [hist EXCEPT !.done = Append(@, fit.x_batch)]
  /\ pc' = "batch_head"
  /\ UNCHANGED <<cfg, network, net, optimizer, trace, revinLog, result, fitted, calls>>


\* ------------------------------------------------------- inference
\* The loop of lines 126-130: one forward pass per batch, in the loader's
\* order, each output appended to outs.
RECURSIVE RunBatches(_, _, _)
RunBatches(n, batches, data) ==
  IF batches = <<>>
    THEN [net |-> n, outs |-> <<>>, events |-> <<>>]
    ELSE LET f == Forward(n, [data |-> data, rows |-> Head(batches)], 1)
             rest == RunBatches(f.net, Tail(batches), data)
         IN [net |-> rest.net, outs |-> <<OutRows(f.out)>> \o rest.outs,
             events |-> f.events \o rest.events]

\* An eval() that puts the parameters back to their initial values.
MutEvalResetsParams(n) == [n EXCEPT !.training = FALSE, !.params = InitParams]

\* Line 122: self.network.eval().
EvalMode(n) == [n EXCEPT !.training = FALSE]

\* forecast(x, batch_size), lines 121-132, called as `op` on N samples:
\* self.network.eval() dereferences self.network; torch.cat refuses an
\* empty list of outputs.
ForecastCall(op, N, b) ==
  /\ CanCall
  /\ calls' = calls + 1
  /\ UNCHANGED fitted
  /\ fit' = NoFit
  /\ trace' = <<>>
  /\ hist' = NoHist
  /\ optimizer' = NoOptimizer
  /\ UNCHANGED <<cfg, network, pc>>
  /\ IF network = 0
       THEN /\ result' = Raised(op, "AttributeError", N, b)
            /\ UNCHANGED <<net, revinLog>>
       ELSE LET r == RunBatches(EvalMode(net),
                                Batches(Sequential(N), b), calls + 1)
            IN /\ net' = r.net
               /\ revinLog' = Last2(revinLog \o r.events)
               /\ result' = IF r.outs = <<>>
                              THEN Raised(op, "RuntimeError", N, b)
                              ELSE [op |-> op, status |-> "ok", N |-> N, b |-> b,
                                    rows |-> Flatten(r.outs)]

Forecast(N, b) == ForecastCall("forecast", N, b)

\* predict(x, batch_size), lines 134-135: forecast under another name.
Predict(N, b) == ForecastCall("predict", N, b)

\* extract_matrices(x), lines 137-160, on a tensor of N samples: normalizes
\* when self.use_revin, projects, and returns without denormalizing.
ExtractMatrices(N) ==
  /\ CanCall
  /\ calls' = calls + 1
  /\ UNCHANGED fitted
  /\ fit' = NoFit
  /\ trace' = <<>>
  /\ hist' = NoHist
  /\ optimizer' = NoOptimizer
  /\ UNCHANGED <<cfg, network, pc>>
  /\ IF network = 0
       THEN /\ result' = Raised("extract_matrices", "AttributeError", N, 0)
            /\ UNCHANGED <<net, revinLog>>
       ELSE LET x == [data |-> calls + 1, rows |-> Sequential(N)]
                n1 == IF cfg.use_revin THEN RevINNorm(net, x) ELSE net
            IN /\ net' = n1
               /\ revinLog' =
                    IF cfg.use_revin
                      THEN Last2(Append(revinLog,
                                 RevINEvent("norm", "extract_matrices", x, NoStats)))
                      ELSE revinLog
               /\ result' = [op |-> "extract_matrices", status |-> "ok", N |-> N,
                             b |-> 0,
                             rows |-> OutRows([x |-> x, params |-> n1.params,
                                               denorm |-> NoStats, fwd |-> 1])]

\* extract_weight_matrices(), lines 162-167: reads the four weight matrices.
ExtractWeightMatrices ==
  /\ CanCall
  /\ calls' = calls + 1
  /\ UNCHANGED fitted
  /\ fit' = NoFit
  /\ trace' = <<>>
  /\ hist' = NoHist
  /\ optimizer' = NoOptimizer
  /\ UNCHANGED <<cfg, network, net, revinLog, pc>>
  /\ result' = IF network = 0
                 THEN Raised("extract_weight_matrices", "AttributeError", 0, 0)
                 ELSE [op |-> "extract_weight_matrices", status |-> "ok", N |-> 0,
                       b |-> 0,
                       rows |-> <<[data |-> 0, sample |-> 0, params |-> net.params,
                                   stat |-> StatRow(NoStats, 1)]>>]

\* ---------------------------------------------------- specification
Next ==
  \/ \E N \in 0..MaxSamples, D \in 1..MaxChannels, W \in 0..MaxWidth : FitEnter(N, D, W)
  \/ FitEpochBegin
  \/ FitReturn
  \/ FitNextBatch
  \/ FitEpochEnd
  \/ FitForward
  \/ FitLoss
  \/ FitBackward
  \/ FitFirstStep
  \/ FitSecondStep
  \/ FitAppendLoss
  \/ \E N \in 0..MaxSamples, b \in 1..MaxBatchSize : Forecast(N, b)
  \/ \E N \in 0..MaxSamples, b \in 1..MaxBatchSize : Predict(N, b)
  \/ \E N \in 0..MaxSamples : ExtractMatrices(N)
  \/ ExtractWeightMatrices

Spec == Init /\ [][Next]_vars


\* ------------------------------------------- the optimizer on its own
\* The optimizer driven by a client that calls backward, first_step and
\* second_step in any order (fit itself only ever calls them in the order of
\* BatchBody).
InitSAM ==
  /\ cfg = [num_epochs |-> 0, batch_size |-> 1, base_optimizer |-> "Adam",
            use_revin |-> FALSE]
  /\ network = 1
  /\ net = NewNetwork(FALSE)
  /\ optimizer = NewOptimizer("Adam")
  /\ pc = "client"
  /\ fit = NoFit
  /\ trace = <<>>
  /\ hist = NoHist
  /\ revinLog = <<>>
  /\ result = NoResult
  /\ fitted = FALSE
  /\ calls = 0

ClientCan == pc = "client" /\ calls < MaxClientCalls

\* The client computes a loss at the current parameters and back-propagates it.
ClientBackward ==
  /\ ClientCan
  /\ calls' = calls + 1
  /\ net' = Backward(net, [NoTensor EXCEPT !.params = net.params, !.fwd = calls + 1])
  /\ result' = [NoResult EXCEPT !.op = "backward", !.status = "ok"]
  /\ UNCHANGED <<cfg, network, optimizer, pc, fit, trace, hist, revinLog, fitted>>

ClientStep(op, r) ==
  /\ ClientCan
  /\ calls' = calls + 1
  /\ optimizer' = r.opt
  /\ net' = r.net
  /\ result' = [NoResult EXCEPT !.op = op,
                                !.status = IF r.err = "none" THEN "ok" ELSE r.err]
  /\ trace' = IF r.err = "none" THEN Append(trace, op) ELSE trace
  /\ UNCHANGED <<cfg, network, pc, fit, hist, revinLog, fitted>>

ClientFirstStep(zero_grad) ==
  ClientStep("first_step", first_step(optimizer, net, zero_grad))

ClientSecondStep(zero_grad) ==
  ClientStep("second_step", second_step(optimizer, net, zero_grad))

NextSAM ==
  \/ ClientBackward
  \/ \E zero_grad \in BOOLEAN : ClientFirstStep(zero_grad)
  \/ \E zero_grad \in BOOLEAN : ClientSecondStep(zero_grad)

SpecSAM == InitSAM /\ [][NextSAM]_vars


\* ============================================================ claims
Count(t, op) == Cardinality({i \in 1..Len(t) : t[i] = op})

IsPrefix(t, u) == Len(t) <= Len(u) /\ \A i \in 1..Len(t) : t[i] = u[i]

InFit == result.op = "fit" /\ pc \in {"epoch_head", "batch_head", "batch_body"}

\* The sequence the specification gives for one batch in SAM mode.
SamCycle ==
  <<"forward", "loss", "backward", "first_step",
    "forward", "loss", "backward", "second_step">>

\* The sequence the specification gives for one batch in plain mode.
PlainCycle == <<"zero_grad", "forward", "loss", "backward", "step">>

\* ---- C1
\* C1: in fit, the operations run on a batch are at every moment a prefix of
\* forward, loss, backward, first_step, forward, loss, backward, second_step,
\* and the whole sequence once the batch is done; the second forward pass
\* starts at the perturbed parameters with the gradients zeroed, runs on the
\* same batch, and the gradient the descent step consumes holds the second
\* backward pass alone; the descent step leaves the gradients zeroed.
C1_SamCycleInOrder ==
  InFit =>
    /\ IsPrefix(trace, SamCycle)
    /\ (pc = "batch_head" /\ fit.pos > 0) => trace = SamCycle
    /\ (pc = "batch_body" /\ Len(trace) = 4) =>
         net.params.perturbed /\ net.grad = <<>>
    /\ (pc = "batch_body" /\ Len(trace) >= 5) =>
         /\ fit.out_batch.fwd = 2
         /\ fit.out_batch.params.perturbed
         /\ fit.out_batch.x.rows = fit.x_batch
    /\ (pc = "batch_body" /\ Len(trace) = 8) =>
         /\ optimizer.consumed = <<fit.out_batch>>
         /\ net.grad = <<>>

C1_Witness ==
  /\ InFit
  /\ pc = "batch_body"
  /\ trace = SamCycle
  /\ fit.epoch >= 1
  /\ fit.pos >= 1

\* ---- C2
Alternates(t) ==
  \A i \in 1..Len(t) : t[i] = IF i % 2 = 1 THEN "first_step" ELSE "second_step"

\* C2: a descent step called when no ascent step is pending, and an ascent
\* step called when one is pending, raise a protocol error and leave the
\* parameters, the gradients and the optimizer as they were; a step called in
\* turn succeeds, so the steps that take effect strictly alternate, ascent
\* first.
C2_OutOfTurnStepRaises ==
  [][(calls' = calls + 1 /\ result'.op \in {"first_step", "second_step"}) =>
       LET pending == Count(trace, "first_step") = Count(trace, "second_step") + 1
           inTurn == IF result'.op = "first_step" THEN ~pending ELSE pending
       IN /\ Alternates(trace')
          /\ inTurn => (result'.status = "ok" /\ trace' = Append(trace, result'.op))
          /\ ~inTurn => /\ result'.status = "ProtocolError"
                        /\ net' = net
                        /\ optimizer' = optimizer
                        /\ trace' = trace]_vars

C2_Witness ==
  /\ pc = "client"
  /\ result.op = "second_step"
  /\ result.status = "ProtocolError"
  /\ trace = <<>>
  /\ net.grad # <<>>

\* ---- C3
\* C3: forecast or predict on an instance whose network is still None ends
\* with a precondition error.
C3_UnfittedForecastIsPreconditionError ==
  (pc = "idle" /\ result.op \in {"forecast", "predict"} /\ network = 0) =>
    result.status = "PreconditionError"

\* ---- C4
\* C4: when the target width is not a whole multiple of the number of
\* channels (and there is at least one sample), fit has failed without
\* replacing self.network and without running any operation on a batch.
C4_InconsistentShapesFailFast ==
  (result.op = "fit" /\ fit.N >= 1 /\ fit.W % fit.D # 0) =>
    /\ result.status \notin {"running", "ok"}
    /\ network = fit.prev_network
    /\ trace = <<>>

\* ---- C5
BatchesPerEpoch == CeilDiv(fit.N, cfg.batch_size)

IsPermutation(t, n) == Len(t) = n /\ \A i \in 1..n : \E j \in 1..n : t[j] = i

\* The number of steps fit still has to take: ten per batch (the batch is
\* fetched, eight operations, the loss is recorded), two per epoch, and the
\* return.
Remaining ==
  LET perEpoch == 10 * BatchesPerEpoch + 2
      epochsLeft == cfg.num_epochs - fit.epoch
  IN CASE pc = "epoch_head" -> epochsLeft * perEpoch + 1
       [] pc = "batch_head" ->
            (epochsLeft - 1) * perEpoch + 2 + 10 * (BatchesPerEpoch - fit.pos)
       [] pc = "batch_body" ->
            (epochsLeft - 1) * perEpoch + 2 + 10 * (BatchesPerEpoch - fit.pos)
              - 1 - Len(trace)
       [] OTHER -> 0

C5_Counts ==
  result.op = "fit" =>
    /\ hist.epochs <= cfg.num_epochs
    /\ result.status = "ok" =>
         /\ hist.epochs = cfg.num_epochs
         /\ hist.cycles = cfg.num_epochs * BatchesPerEpoch
    /\ (pc = "epoch_head" \/ result.status = "ok") =>
         /\ hist.cycles = hist.epochs * BatchesPerEpoch
         /\ hist.epochs > 0 =>
              /\ Len(hist.done) = BatchesPerEpoch
              /\ IsPermutation(Flatten(hist.done), fit.N)

ModelOutput(data, i) ==
  [data |-> data, sample |-> i, params |-> net.params,
   stat |-> IF net.use_revin THEN [data |-> data, sample |-> i]
                             ELSE [data |-> 0, sample |-> 0]]

\* fit has returned for self.network after at least one optimizer cycle.
Trained == fitted /\ net.params.version >= 1

ForecastEnded == pc = "idle" /\ result.op \in {"forecast", "predict"} /\ Trained

RowsInOrder ==
  /\ result.status = "ok"
  /\ ~net.training
  /\ Len(result.rows) = result.N
  /\ \A i \in 1..result.N : result.rows[i] = ModelOutput(calls, i)

\* C6: on a fitted (and trained) instance, forecast and predict on N samples
\* with any batch size return N rows, row i being the output of the network,
\* set to evaluation mode, for sample i.
C6_ForecastReturnsRowsInOrder == ForecastEnded => RowsInOrder

\* The same for N >= 1, which is what the code does.
ForecastOfSomeRowsInOrder == (ForecastEnded /\ result.N >= 1) => RowsInOrder

\* ---- C7
NotSharpnessAware(base_optimizer) == base_optimizer \in {"Adam", "SGD"}

C8_OnlyOptimizerStepsChangeParameters ==
  [][/\ (network' = network /\ net'.params # net.params) =>
          (pc = "batch_body" /\ NextOp \in {"first_step", "second_step"})
     /\ (calls' = calls + 1 /\ result'.op # "fit") =>
          (network' = network /\ net'.params = net.params)]_vars

C8_Witness ==
  /\ pc = "idle"
  /\ result.op = "forecast"
  /\ result.status = "ok"
  /\ result.N >= 2
  /\ net.params.version >= 2

\* ---- C9
\* C9: during fit the ascent steps are at most one ahead of the descent steps,
\* the parameters are perturbed and a perturbation is cached exactly while one
\* is ahead, and between batches and once fit has returned none is.
C9_PerturbationWithinOneCycle ==
  result.op = "fit" =>
    /\ hist.ascents - hist.descents \in {0, 1}
    /\ net.params.perturbed <=> (hist.ascents = hist.descents + 1)
    /\ optimizer.e_w.cached <=> (hist.ascents = hist.descents + 1)
    /\ (pc \in {"batch_head", "epoch_head"} \/ result.status = "ok") =>
         /\ hist.ascents = hist.descents
         /\ hist.descents = hist.cycles

C9_Witness ==
  /\ pc = "idle"
  /\ result.op = "fit"
  /\ result.status = "ok"
  /\ hist.ascents >= 3
  /\ hist.ascents = hist.descents

\* ---- C10
\* Every denormalization used the statistics of its own batch, stored by the
\* normalization that the same forward pass made just before.
DenormUsesItsOwnStatistics ==
  \A i \in 1..Len(revinLog) :
    revinLog[i].mode = "denorm" =>
      /\ revinLog[i].used = revinLog[i].x
      /\ i > 1 => /\ revinLog[i - 1].mode = "norm"
                  /\ revinLog[i - 1].by = "forward"
                  /\ revinLog[i - 1].x = revinLog[i].x

\* The last call to the normalizer was not a normalization: no statistics are
\* waiting for their denormalization.
NoStatisticsPending ==
  revinLog # <<>> => revinLog[Len(revinLog)].mode # "norm"

\* C10 as stated: on a trained instance, every denormalization uses the
\* statistics of its own forward pass, and every normalization has been
\* followed by its denormalization.
C10_EveryNormIsPaired ==
  Trained => (DenormUsesItsOwnStatistics /\ NoStatisticsPending)

\* C10 as amended: every denormalization uses the statistics of its own
\* forward pass; every normalization made by a forward pass has been followed
\* by its denormalization; the statistics computed by extract_matrices are the
\* only ones left on the normalizer unconsumed; and without normalization the
\* normalizer is never called.
C10_ForwardNormIsPaired ==
  /\ DenormUsesItsOwnStatistics
  /\ \A i \in 1..Len(revinLog) :
       (revinLog[i].mode = "norm" /\ revinLog[i].by = "forward") =>
         /\ i < Len(revinLog)
         /\ revinLog[i + 1].mode = "denorm"
         /\ revinLog[i + 1].x = revinLog[i].x
  /\ ~NoStatisticsPending =>
       /\ revinLog[Len(revinLog)].by = "extract_matrices"
       /\ net.stats = revinLog[Len(revinLog)].x
  /\ ~cfg.use_revin => revinLog = <<>>

C10_Witness ==
  /\ pc = "idle"
  /\ result.op = "extract_matrices"
  /\ Len(revinLog) = 2
  /\ revinLog[1].mode = "denorm"
  /\ revinLog[1].by = "forward"
  /\ revinLog[2].mode = "norm"
  /\ Len(revinLog[1].x.rows) >= 1


====
